---- MODULE Spec2Model ----
(***************************************************************************)
(* Model of the enrichment-and-delivery microservice (service/main.go):    *)
(* the intake handler processHandler with its synchronous enrichRecord     *)
(* retry loop, the buffered channel recordChannel, and the dispatcher      *)
(* goroutine startSendingToAnalytics driven by a 10 second time.Ticker.    *)
(* Time is a discrete clock counted in seconds; timers (the ticker and     *)
(* time.Sleep) fire at the second they are due.                            *)
(***************************************************************************)
EXTENDS Integers, Sequences, FiniteSets

\* ---- bounds of the model ------------------------------------------------
\* A run is driven by one of three loads.  The burst load sends many
\* submissions that all enrich at the first attempt, one request at a time.
\* The flaky load sends a few submissions, handled concurrently, and lets
\* calls fail.  The steady load sends a few submissions one at a time over
\* three ticker periods.
BurstSubs == 25      \* submissions of the burst load
BurstTime == 20      \* seconds the clock runs under the burst load
FlakySubs == 2       \* submissions of the flaky load
FlakyTime == 20      \* seconds the clock runs under the flaky load
SteadySubs == 3      \* submissions of the steady load
SteadyTime == 30     \* seconds the clock runs under the steady load
MaxFaults == 3       \* failed calls and undecodable bodies of the flaky load
MaxHandlers == 2     \* processHandler invocations in flight under the flaky load
MaxRows == 4         \* data rows of the CSV file the client reads
LiveTime == 3        \* seconds the clock runs before it stops under LiveSpec

\* ---- program constants --------------------------------------------------
ChanCap == 20
maxBatchSize == 20
TickPeriod == 10
maxRetries == 3
InitialRetryDelay == 1
numWorkers == 20
FieldsPerRow == 6

\* Two submission bodies as the client sends them (id, asset_name, ip,
\* created_utc, source, category).
BodyA == [id |-> "a", assetName |-> "web-1", ip |-> "10.0.0.1",
          createdUtc |-> "2024-01-01T00:00:00Z", source |-> "edr",
          category |-> "phising"]
BodyB == [id |-> "b", assetName |-> "db-2", ip |-> "10.0.0.2",
          createdUtc |-> "2024-02-02T00:00:00Z", source |-> "ids",
          category |-> "validaccounts"]

\* The burst load resubmits one body; the other loads cycle through bodies.
Burst == [subs |-> BurstSubs, time |-> BurstTime, faults |-> 0, handlers |-> 1,
          bodies |-> <<BodyA>>]
Flaky == [subs |-> FlakySubs, time |-> FlakyTime, faults |-> MaxFaults,
          handlers |-> MaxHandlers, bodies |-> <<BodyA, BodyB>>]
Steady == [subs |-> SteadySubs, time |-> SteadyTime, faults |-> 0, handlers |-> 1,
           bodies |-> <<BodyB, BodyB, BodyA>>]
Loads == {Burst, Flaky, Steady}

VARIABLES
    load,           \* the load that drives this run
    now,            \* the clock, in seconds since the service started
    tickC,          \* number of ticks waiting in ticker.C (a channel of capacity 1)
    recordChannel,  \* the records buffered in recordChannel, oldest first
    batch,          \* the dispatcher's local slice batch
    disp,           \* the dispatcher's position: "select" or "sending"
    recordsToSend,  \* the slice passed to the sendToAnalytics call in flight
    lastStart,      \* history: when the latest sendToAnalytics call started (-1: none)
    dispatched,     \* history: all records passed to sendToAnalytics, in order
    handlers,       \* the processHandler invocations in flight
    nextSub,        \* number given to the next submission that arrives
    responses,      \* history: HTTP status written for each submission (0: none yet)
    accepted,       \* history: submissions in the order their channel send completed
    enrichedOk,     \* history: submissions whose enrichRecord returned nil error
    faults,         \* failures injected so far
    calls,          \* history: enrichment attempts started and failed, per submission
    lost            \* history: submissions whose batch got an error from sendToAnalytics

\* The client (a separate program).
VARIABLES
    records,        \* the records left after readCSV and the filters, each with its index k
    skippedRecords, \* the line numbers readCSV skipped
    mainPc,         \* main's position: "off", "spawn", "queue", "wait" or "done"
    spawned,        \* number of worker goroutines started
    queued,         \* number of records main has sent on jobs
    jobs,           \* the jobs channel, oldest first
    closed,         \* whether jobs is closed
    wg,             \* the WaitGroup counter
    ranging,        \* number of workers at "for record := range jobs"
    inflight,       \* the records of the sendRecord calls that have not returned
    posted,         \* history: the request bodies sendRecord has built, in order
    outcome         \* history: what the last sendRecord call for each index returned

serviceVars == <<load, now, tickC, recordChannel, batch, disp, recordsToSend,
                 lastStart, dispatched, handlers, nextSub, responses,
                 accepted, enrichedOk, faults, calls, lost>>

clientVars == <<records, skippedRecords, mainPc, spawned, queued, jobs, closed,
                wg, ranging, inflight, posted, outcome>>

vars == <<serviceVars, clientVars>>

Handlers == 1..MaxHandlers

Min(a, b) == IF a <= b THEN a ELSE b

\* ---- Record -------------------------------------------------------------
\* The body of submission s.
BodyOf(s) == load.bodies[((s - 1) % Len(load.bodies)) + 1]

\* The decoded record of submission s: the fields of its body; asn and
\* correlationId have Go's zero values until enrichment fills them in.  sub
\* tags the record with its submission and is not a field of the program.
DecodedRecord(s) ==
    [sub |-> s, id |-> BodyOf(s).id, assetName |-> BodyOf(s).assetName,
     ip |-> BodyOf(s).ip, createdUtc |-> BodyOf(s).createdUtc,
     source |-> BodyOf(s).source, category |-> BodyOf(s).category,
     asn |-> "", correlationId |-> 0]

\* The request body enrichRecord marshals.
Request(r) == [id |-> r.id, asset |-> r.assetName, ip |-> r.ip,
               category |-> r.category]

\* The body of a 200 answer of the enrichment service to a request.
Lookup(req) ==
    IF req.id = "a"
    THEN [asn |-> "AS1", category |-> "phishing", correlationId |-> 7]
    ELSE [asn |-> "AS2", category |-> "trustedrelationship", correlationId |-> 9]

\* A success branch that leaves category as submitted.
OverwriteNoCategory(r, resp) ==
    [r EXCEPT !.asn = resp.asn, !.correlationId = resp.correlationId]

\* The success branch: record.ASN, record.Category and record.CorrelationID
\* are overwritten with the values of the response.
Overwrite(r, resp) ==
    [r EXCEPT !.asn = resp.asn, !.category = resp.category,
              !.correlationId = resp.correlationId]

\* The record enrichRecord returns on success.
Enriched(r) == Overwrite(r, Lookup(Request(r)))

IsEnriched(r) == r.asn # "" /\ r.correlationId # 0

\* ---- processHandler / enrichRecord --------------------------------------
Idle == [pc |-> "idle", sub |-> 0, record |-> DecodedRecord(0), attempt |-> 0,
         retryDelay |-> 0, wakeAt |-> 0, failedAt |-> 0, waited |-> 0]

InFlight(h) == handlers[h].pc # "idle"

\* Requests are numbered by the first free slot.
FreeSlot(h) ==
    /\ h <= load.handlers
    /\ ~InFlight(h)
    /\ \A g \in Handlers : g < h => InFlight(g)

\* A retryDelay that is never doubled.
NextDelaySame(d) == d

\* retryDelay *= 2
NextDelay(d) == d * 2

\* A retry that does not sleep.
WakeTimeNoSleep(t, d) == t

\* time.Sleep(retryDelay) called at second t returns at second t + retryDelay.
WakeTime(t, d) == t + d

\* A channel with one slot less.
CanSendOneLess(ch) == Len(ch) < ChanCap - 1

\* A channel without a capacity.
CanSendAlways(ch) == TRUE

\* A buffered channel accepts a send while it holds fewer than cap(ch) values.
CanSend(ch) == Len(ch) < ChanCap

\* A request arrives and its body decodes: enrichRecord starts attempt 1.
Begin(h) ==
    /\ FreeSlot(h)
    /\ nextSub <= load.subs
    /\ handlers' = [handlers EXCEPT ![h] =
           [pc |-> "call", sub |-> nextSub, record |-> DecodedRecord(nextSub),
            attempt |-> 1, retryDelay |-> InitialRetryDelay, wakeAt |-> 0,
            failedAt |-> 0, waited |-> 0]]
    /\ nextSub' = nextSub + 1
    /\ calls' = [calls EXCEPT ![nextSub].made = 1]
    /\ UNCHANGED <<clientVars, load, now, tickC, recordChannel, batch, disp, recordsToSend,
                   lastStart, dispatched, responses, accepted,
                   enrichedOk, faults,
                   lost>>

\* A decode branch that lacks the return: after the 400 the handler goes on
\* to enrich the record it has.
BadBodyFallThrough(h) ==
    /\ FreeSlot(h)
    /\ nextSub <= load.subs
    /\ faults < load.faults
    /\ faults' = faults + 1
    /\ responses' = [responses EXCEPT ![nextSub] = 400]
    /\ handlers' = [handlers EXCEPT ![h] =
           [pc |-> "call", sub |-> nextSub, record |-> DecodedRecord(nextSub),
            attempt |-> 1, retryDelay |-> InitialRetryDelay, wakeAt |-> 0,
            failedAt |-> 0, waited |-> 0]]
    /\ calls' = [calls EXCEPT ![nextSub].made = 1]
    /\ nextSub' = nextSub + 1
    /\ UNCHANGED <<clientVars, load, now, tickC, recordChannel, batch, disp, recordsToSend,
                   lastStart, dispatched, accepted, enrichedOk, lost>>

\* A request arrives whose body is not valid JSON: 400, nothing else happens.
BadBody(h) ==
    /\ FreeSlot(h)
    /\ nextSub <= load.subs
    /\ faults < load.faults
    /\ faults' = faults + 1
    /\ responses' = [responses EXCEPT ![nextSub] = 400]
    /\ nextSub' = nextSub + 1
    /\ UNCHANGED <<clientVars, load, now, tickC, recordChannel, batch, disp, recordsToSend,
                   lastStart, dispatched, handlers, accepted,
                   enrichedOk,
                   calls, lost>>

\* An EnrichSucceed that writes the 200 response before the channel send.
EnrichSucceedAckFirst(h) ==
    /\ handlers[h].pc = "call"
    /\ handlers' = [handlers EXCEPT ![h].pc = "handoff",
                                    ![h].record = Enriched(@)]
    /\ enrichedOk' = enrichedOk \cup {handlers[h].sub}
    /\ responses' = [responses EXCEPT ![handlers[h].sub] = 200]
    /\ UNCHANGED <<clientVars, load, now, tickC, recordChannel, batch, disp, recordsToSend,
                   lastStart, dispatched, nextSub, accepted, faults,
                   calls, lost>>

\* The enrichment call of the current attempt returns 200 with a well-formed
\* body: enrichRecord returns the enriched record and processHandler goes on
\* to the channel send.
EnrichSucceed(h) ==
    /\ handlers[h].pc = "call"
    /\ handlers' = [handlers EXCEPT ![h].pc = "handoff",
                                    ![h].record = Enriched(@)]
    /\ enrichedOk' = enrichedOk \cup {handlers[h].sub}
    /\ UNCHANGED <<clientVars, load, now, tickC, recordChannel, batch, disp, recordsToSend,
                   lastStart, dispatched, nextSub, responses,
                   accepted, faults,
                   calls, lost>>

\* The attempt fails (transport error, non-200 status or malformed body) and
\* attempt < maxRetries: time.Sleep(retryDelay); retryDelay *= 2.
EnrichRetry(h) ==
    /\ handlers[h].pc = "call"
    /\ handlers[h].attempt < maxRetries
    /\ faults < load.faults
    /\ faults' = faults + 1
    /\ handlers' = [handlers EXCEPT ![h].pc = "sleep",
                                    ![h].wakeAt = WakeTime(now, handlers[h].retryDelay),
                                    ![h].retryDelay = NextDelay(@),
                                    ![h].failedAt = now]
    /\ calls' = [calls EXCEPT ![handlers[h].sub].failed = @ + 1]
    /\ UNCHANGED <<clientVars, load, now, tickC, recordChannel, batch, disp, recordsToSend,
                   lastStart, dispatched, nextSub, responses,
                   accepted, enrichedOk,
                   lost>>

\* time.Sleep returns once wakeAt is reached; the loop starts the next attempt.
Wake(h) ==
    /\ handlers[h].pc = "sleep"
    /\ now >= handlers[h].wakeAt
    /\ handlers' = [handlers EXCEPT ![h].pc = "call",
                                    ![h].attempt = @ + 1,
                                    ![h].waited = @ + (now - handlers[h].failedAt),
                                    ![h].wakeAt = 0,
                                    ![h].failedAt = 0]
    /\ calls' = [calls EXCEPT ![handlers[h].sub].made = @ + 1]
    /\ UNCHANGED <<clientVars, load, now, tickC, recordChannel, batch, disp, recordsToSend,
                   lastStart, dispatched, nextSub, responses,
                   accepted, enrichedOk, faults,
                   lost>>

\* An EnrichGiveUp whose error branch lacks the return: after the 500 the
\* handler falls through to the channel send with the record as it is.
EnrichGiveUpFallThrough(h) ==
    /\ handlers[h].pc = "call"
    /\ handlers[h].attempt >= maxRetries
    /\ faults < load.faults
    /\ faults' = faults + 1
    /\ responses' = [responses EXCEPT ![handlers[h].sub] = 500]
    /\ calls' = [calls EXCEPT ![handlers[h].sub].failed = @ + 1]
    /\ handlers' = [handlers EXCEPT ![h].pc = "handoff"]
    /\ UNCHANGED <<clientVars, load, now, tickC, recordChannel, batch, disp, recordsToSend,
                   lastStart, dispatched, nextSub, accepted,
                   enrichedOk,
                   lost>>

\* An enrichRecord that gives up one attempt early.
EnrichGiveUpEarly(h) ==
    /\ handlers[h].pc = "call"
    /\ handlers[h].attempt >= maxRetries - 1
    /\ faults < load.faults
    /\ faults' = faults + 1
    /\ responses' = [responses EXCEPT ![handlers[h].sub] = 500]
    /\ calls' = [calls EXCEPT ![handlers[h].sub].failed = @ + 1]
    /\ handlers' = [handlers EXCEPT ![h] = Idle]
    /\ UNCHANGED <<clientVars, load, now, tickC, recordChannel, batch, disp, recordsToSend,
                   lastStart, dispatched, nextSub, accepted,
                   enrichedOk, lost>>

\* The last attempt fails: enrichRecord returns the error and processHandler
\* answers 500 without touching the channel.
EnrichGiveUp(h) ==
    /\ handlers[h].pc = "call"
    /\ handlers[h].attempt >= maxRetries
    /\ faults < load.faults
    /\ faults' = faults + 1
    /\ responses' = [responses EXCEPT ![handlers[h].sub] = 500]
    /\ calls' = [calls EXCEPT ![handlers[h].sub].failed = @ + 1]
    /\ handlers' = [handlers EXCEPT ![h] = Idle]
    /\ UNCHANGED <<clientVars, load, now, tickC, recordChannel, batch, disp, recordsToSend,
                   lastStart, dispatched, nextSub, accepted,
                   enrichedOk,
                   lost>>

\* A Handoff that drops the record when the channel is full (a select with a
\* default branch) instead of blocking.
HandoffOrDrop(h) ==
    /\ handlers[h].pc = "handoff"
    /\ IF CanSend(recordChannel)
       THEN /\ recordChannel' = Append(recordChannel, handlers[h].record)
            /\ accepted' = Append(accepted, handlers[h].sub)
       ELSE UNCHANGED <<recordChannel, accepted>>
    /\ responses' = [responses EXCEPT ![handlers[h].sub] = 200]
    /\ handlers' = [handlers EXCEPT ![h] = Idle]
    /\ UNCHANGED <<clientVars, load, now, tickC, batch, disp, recordsToSend, lastStart,
                   dispatched, nextSub, enrichedOk, faults,
                   calls, lost>>

\* recordChannel <- enrichedRecord, then WriteHeader(200) and the JSON reply.
Handoff(h) ==
    /\ handlers[h].pc = "handoff"
    /\ CanSend(recordChannel)
    /\ recordChannel' = Append(recordChannel, handlers[h].record)
    /\ accepted' = Append(accepted, handlers[h].sub)
    /\ responses' = [responses EXCEPT ![handlers[h].sub] = 200]
    /\ handlers' = [handlers EXCEPT ![h] = Idle]
    /\ UNCHANGED <<clientVars, load, now, tickC, batch, disp, recordsToSend, lastStart,
                   dispatched, nextSub, enrichedOk, faults,
                   calls, lost>>

\* ---- startSendingToAnalytics --------------------------------------------
\* A tick branch that sends the whole batch.
TakeAll(b) == b

\* recordsToSend of the tick branch: batch[:20] or batch.
TakeBatch(b) ==
    IF Len(b) >= maxBatchSize THEN SubSeq(b, 1, maxBatchSize) ELSE b

\* A tick branch that empties batch in both branches.
RemainderNone(b) == <<>>

\* A tick branch that keeps the records it sends in batch.
RemainderKeepAll(b) == b

\* batch after the tick branch: batch[20:] or batch[:0].
Remainder(b) ==
    IF Len(b) >= maxBatchSize THEN SubSeq(b, maxBatchSize + 1, Len(b)) ELSE <<>>

\* A receive branch that calls sendToAnalytics as soon as maxBatchSize
\* records are pending.
ReceiveFlushWhenFull ==
    /\ disp = "select"
    /\ recordChannel # <<>>
    /\ recordChannel' = Tail(recordChannel)
    /\ IF Len(batch) + 1 >= maxBatchSize
       THEN /\ recordsToSend' = Append(batch, Head(recordChannel))
            /\ batch' = <<>>
            /\ dispatched' = dispatched \o Append(batch, Head(recordChannel))
            /\ lastStart' = now
            /\ disp' = "sending"
       ELSE /\ batch' = Append(batch, Head(recordChannel))
            /\ UNCHANGED <<recordsToSend, dispatched, lastStart, disp>>
    /\ UNCHANGED <<clientVars, load, now, tickC, handlers, nextSub, responses,
                   accepted, enrichedOk, faults, calls, lost>>

\* A receive branch that skips a record whose id is already pending.
ReceiveDedup ==
    /\ disp = "select"
    /\ recordChannel # <<>>
    /\ batch' = IF \E i \in DOMAIN batch : batch[i].id = Head(recordChannel).id
                THEN batch
                ELSE Append(batch, Head(recordChannel))
    /\ recordChannel' = Tail(recordChannel)
    /\ UNCHANGED <<clientVars, load, now, tickC, disp, recordsToSend, lastStart,
                   dispatched, handlers, nextSub, responses,
                   accepted, enrichedOk, faults, calls, lost>>

\* A receive branch that puts the record at the front of batch.
ReceivePrepend ==
    /\ disp = "select"
    /\ recordChannel # <<>>
    /\ batch' = <<Head(recordChannel)>> \o batch
    /\ recordChannel' = Tail(recordChannel)
    /\ UNCHANGED <<clientVars, load, now, tickC, disp, recordsToSend, lastStart,
                   dispatched, handlers, nextSub, responses,
                   accepted, enrichedOk, faults,
                   calls, lost>>

\* case record := <-recordChannel: batch = append(batch, record)
Receive ==
    /\ disp = "select"
    /\ recordChannel # <<>>
    /\ batch' = Append(batch, Head(recordChannel))
    /\ recordChannel' = Tail(recordChannel)
    /\ UNCHANGED <<clientVars, load, now, tickC, disp, recordsToSend, lastStart,
                   dispatched, handlers, nextSub, responses,
                   accepted, enrichedOk, faults,
                   calls, lost>>

\* A tick branch that waits for a full batch.
HandleTickFullOnly ==
    /\ disp = "select"
    /\ tickC > 0
    /\ tickC' = tickC - 1
    /\ IF Len(batch) >= maxBatchSize
       THEN /\ recordsToSend' = TakeBatch(batch)
            /\ batch' = Remainder(batch)
            /\ dispatched' = dispatched \o TakeBatch(batch)
            /\ lastStart' = now
            /\ disp' = "sending"
       ELSE UNCHANGED <<recordsToSend, batch, dispatched, lastStart, disp>>
    /\ UNCHANGED <<clientVars, load, now, recordChannel, handlers, nextSub,
                   responses, accepted, enrichedOk, faults,
                   calls, lost>>

\* A tick branch without the len(batch) > 0 test.
HandleTickAlways ==
    /\ disp = "select"
    /\ tickC > 0
    /\ tickC' = tickC - 1
    /\ recordsToSend' = TakeBatch(batch)
    /\ batch' = Remainder(batch)
    /\ dispatched' = dispatched \o TakeBatch(batch)
    /\ lastStart' = now
    /\ disp' = "sending"
    /\ UNCHANGED <<clientVars, load, now, recordChannel, handlers, nextSub,
                   responses, accepted, enrichedOk, faults,
                   calls, lost>>

\* case <-ticker.C: with a non-empty batch, cut recordsToSend off batch and
\* call sendToAnalytics; the loop is busy until the call returns.
HandleTick ==
    /\ disp = "select"
    /\ tickC > 0
    /\ tickC' = tickC - 1
    /\ IF Len(batch) > 0
       THEN /\ recordsToSend' = TakeBatch(batch)
            /\ batch' = Remainder(batch)
            /\ dispatched' = dispatched \o TakeBatch(batch)
            /\ lastStart' = now
            /\ disp' = "sending"
       ELSE UNCHANGED <<recordsToSend, batch, dispatched, lastStart, disp>>
    /\ UNCHANGED <<clientVars, load, now, recordChannel, handlers, nextSub,
                   responses, accepted, enrichedOk, faults,
                   calls, lost>>

\* sendToAnalytics returns nil.
SendOk ==
    /\ disp = "sending"
    /\ disp' = "select"
    /\ recordsToSend' = <<>>
    /\ UNCHANGED <<clientVars, load, now, tickC, recordChannel, batch, lastStart,
                   dispatched, handlers, nextSub, responses, accepted,
                   enrichedOk, faults,
                   calls, lost>>

\* A dispatcher that stops at the error of sendToAnalytics.
SendFailHalt ==
    /\ disp = "sending"
    /\ faults < load.faults
    /\ faults' = faults + 1
    /\ disp' = "halted"
    /\ recordsToSend' = <<>>
    /\ lost' = lost \cup {recordsToSend[i].sub : i \in DOMAIN recordsToSend}
    /\ UNCHANGED <<clientVars, load, now, tickC, recordChannel, batch, lastStart,
                   dispatched, handlers, nextSub, responses, accepted,
                   enrichedOk, calls>>

\* A dispatcher that puts a failed batch back in front of batch.
SendFailRequeue ==
    /\ disp = "sending"
    /\ faults < load.faults
    /\ faults' = faults + 1
    /\ disp' = "select"
    /\ recordsToSend' = <<>>
    /\ batch' = recordsToSend \o batch
    /\ lost' = lost \cup {recordsToSend[i].sub : i \in DOMAIN recordsToSend}
    /\ UNCHANGED <<clientVars, load, now, tickC, recordChannel, lastStart,
                   dispatched, handlers, nextSub, responses, accepted,
                   enrichedOk, calls>>

\* sendToAnalytics returns an error: it is logged and the loop goes on.
SendFail ==
    /\ disp = "sending"
    /\ faults < load.faults
    /\ faults' = faults + 1
    /\ disp' = "select"
    /\ recordsToSend' = <<>>
    /\ lost' = lost \cup {recordsToSend[i].sub : i \in DOMAIN recordsToSend}
    /\ UNCHANGED <<clientVars, load, now, tickC, recordChannel, batch, lastStart,
                   dispatched, handlers, nextSub, responses, accepted,
                   enrichedOk,
                   calls>>

\* ---- the clock and the ticker -------------------------------------------
\* The dispatcher's select is ready when a tick or a record is waiting.
SelectReady == disp = "select" /\ (tickC > 0 \/ recordChannel # <<>>)

\* A time.Sleep is due.
SleepDue == \E h \in Handlers : handlers[h].pc = "sleep" /\ handlers[h].wakeAt <= now

\* One second passes.  A ready select and a due sleep run before time moves
\* on.  The ticker sends a tick every TickPeriod seconds and drops it when
\* ticker.C still holds the previous one.
Advance ==
    /\ now < load.time
    /\ ~SelectReady
    /\ ~SleepDue
    /\ now' = now + 1
    /\ tickC' = IF now' % TickPeriod = 0 THEN Min(tickC + 1, 1) ELSE tickC
    /\ UNCHANGED <<clientVars, load, recordChannel, batch, disp, recordsToSend, lastStart,
                   dispatched, handlers, nextSub, responses,
                   accepted, enrichedOk, faults,
                   calls, lost>>

\* ---- the client: readCSV, the filters, main, sendRecord ------------------
\* The data rows of a CSV file (the header line is line 1): the number of
\* fields of the row and the fields, the last one being the category as
\* written.
CsvFile == <<
    [n |-> 6, f |-> <<"a", "web-1", "10.0.0.1", "2024-01-01T00:00:00Z", "edr", "Phising">>],
    [n |-> 5, f |-> <<"x", "web-9", "10.0.0.9", "2024-09-09T00:00:00Z", "edr", "">>],
    [n |-> 6, f |-> <<"b", "db-2", "10.0.0.2", "2024-02-02T00:00:00Z", "ids", "Valid Accounts">>],
    [n |-> 6, f |-> <<"A", "web-3", "10.0.0.3", "2024-03-03T00:00:00Z", "edr", "malware">>],
    [n |-> 6, f |-> <<"c", "db-4", "10.0.0.4", "2024-04-04T00:00:00Z", "ids", "  ">> ] >>

\* strings.TrimSpace(strings.ToLower(s)) on the strings of CsvFile and of the
\* flags.
LowerTrim(str) ==
    CASE str = "Phising" -> "phising"
      [] str = "Valid Accounts" -> "valid accounts"
      [] str = "  " -> ""
      [] str = "A" -> "a"
      [] str = "PHISHING" -> "phishing"
      [] OTHER -> str

\* The entries of categoryMap that the categories of CsvFile can hit.
categoryMap ==
    [key \in {"phishing", "phising", "validaccounts", "valid accounts"} |->
        IF key \in {"phishing", "phising"} THEN "phishing" ELSE "validaccounts"]

sanitizeCategory(category) ==
    LET normalizedCategory == LowerTrim(category)
    IN  IF normalizedCategory \in DOMAIN categoryMap
        THEN categoryMap[normalizedCategory]
        ELSE normalizedCategory

\* readCSV on the first rows of a file: the records read and the line
\* numbers skipped (a row that has not 6 fields, a blank category).
RECURSIVE readCSV(_, _)
readCSV(rows, i) ==
    IF i = 0 THEN [records |-> <<>>, skippedRecords |-> <<>>]
    ELSE LET sofar == readCSV(rows, i - 1)
             row == rows[i]
             lineNumber == i + 1
             skip == [sofar EXCEPT !.skippedRecords = Append(@, lineNumber)]
         IN  IF row.n # FieldsPerRow THEN skip
             ELSE IF sanitizeCategory(row.f[6]) = "" THEN skip
             ELSE [sofar EXCEPT !.records = Append(@,
                     [ID |-> row.f[1], AssetName |-> row.f[2], IP |-> row.f[3],
                      CreatedUTC |-> row.f[4], Source |-> row.f[5],
                      Category |-> sanitizeCategory(row.f[6])])]

\* strings.EqualFold
EqualFold(a, b) == LowerTrim(a) = LowerTrim(b)

filterRecordsByCategory(recs, category) ==
    LET Keep(r) == EqualFold(r.Category, category) IN SelectSeq(recs, Keep)

filterRecordsById(recs, id) ==
    LET Keep(r) == EqualFold(r.ID, id) IN SelectSeq(recs, Keep)

\* The records main works on, for the flags -category and -id ("" when not
\* given).
Filtered(recs, filterCategory, filterId) ==
    LET byCategory == IF filterCategory # ""
                      THEN filterRecordsByCategory(recs, filterCategory) ELSE recs
    IN  IF filterId # "" THEN filterRecordsById(byCategory, filterId) ELSE byCategory

\* The JSON body sendRecord builds for a record.
Payload(r) ==
    [id |-> r.ID, assetName |-> r.AssetName, ip |-> r.IP,
     createdUtc |-> r.CreatedUTC, source |-> r.Source, category |-> r.Category]

Indexes == DOMAIN records

\* The client has not been started.
ClientOff ==
    /\ records = <<>>
    /\ skippedRecords = <<>>
    /\ mainPc = "off"
    /\ spawned = 0
    /\ queued = 0
    /\ jobs = <<>>
    /\ closed = FALSE
    /\ wg = 0
    /\ ranging = 0
    /\ inflight = <<>>
    /\ posted = <<>>
    /\ outcome = <<>>

\* main has read the file, applied the filters and made the jobs channel.
ClientStart ==
    \E rows \in 0..MaxRows, filterCategory \in {"", "PHISHING"}, filterId \in {"", "A"} :
        LET read == readCSV(CsvFile, Min(rows, Len(CsvFile)))
            kept == Filtered(read.records, filterCategory, filterId)
        IN  /\ records = [k \in DOMAIN kept |-> [k |-> k, record |-> kept[k]]]
            /\ skippedRecords = read.skippedRecords
            /\ mainPc = "spawn"
            /\ spawned = 0
            /\ queued = 0
            /\ jobs = <<>>
            /\ closed = FALSE
            /\ wg = 0
            /\ ranging = 0
            /\ inflight = [k \in DOMAIN kept |-> 0]
            /\ posted = <<>>
            /\ outcome = [k \in DOMAIN kept |-> "none"]

\* cap(jobs): make(chan Record, len(records))
JobsCap == Len(records)

\* wg.Add(1); go func() { ... }()
StartWorker ==
    /\ mainPc = "spawn"
    /\ spawned' = spawned + 1
    /\ wg' = wg + 1
    /\ ranging' = ranging + 1
    /\ mainPc' = IF spawned' = numWorkers THEN "queue" ELSE "spawn"
    /\ UNCHANGED <<serviceVars, records, skippedRecords, queued, jobs, closed,
                   inflight, posted, outcome>>

\* jobs <- record
QueueJob ==
    /\ mainPc = "queue"
    /\ queued < Len(records)
    /\ Len(jobs) < JobsCap
    /\ jobs' = Append(jobs, records[queued + 1])
    /\ queued' = queued + 1
    /\ UNCHANGED <<serviceVars, records, skippedRecords, mainPc, spawned, closed,
                   wg, ranging, inflight, posted, outcome>>

\* close(jobs)
CloseJobs ==
    /\ mainPc = "queue"
    /\ queued = Len(records)
    /\ closed' = TRUE
    /\ mainPc' = "wait"
    /\ UNCHANGED <<serviceVars, records, skippedRecords, spawned, queued, jobs,
                   wg, ranging, inflight, posted, outcome>>

\* A worker receives a record from jobs and calls sendRecord.
TakeJob ==
    /\ ranging > 0
    /\ jobs # <<>>
    /\ jobs' = Tail(jobs)
    /\ ranging' = ranging - 1
    /\ inflight' = [inflight EXCEPT ![Head(jobs).k] = @ + 1]
    /\ posted' = Append(posted, [k |-> Head(jobs).k, body |-> Payload(Head(jobs).record)])
    /\ UNCHANGED <<serviceVars, records, skippedRecords, mainPc, spawned, queued,
                   closed, wg, outcome>>

\* A worker that calls sendRecord again when it returned an error.
SendRecordReturnsRetry ==
    \E k \in Indexes, result \in {"ok", "error"} :
        /\ inflight[k] > 0
        /\ outcome' = [outcome EXCEPT ![k] = result]
        /\ IF result = "error"
           THEN /\ posted' = Append(posted, [k |-> k, body |-> Payload(records[k].record)])
                /\ UNCHANGED <<inflight, ranging>>
           ELSE /\ inflight' = [inflight EXCEPT ![k] = @ - 1]
                /\ ranging' = ranging + 1
                /\ posted' = posted
        /\ UNCHANGED <<serviceVars, records, skippedRecords, mainPc, spawned, queued,
                       jobs, closed, wg>>

\* sendRecord returns nil (status 200) or an error (client.Do failed, or a
\* status other than 200); the worker logs it and goes back to the range.
SendRecordReturns ==
    \E k \in Indexes, result \in {"ok", "error"} :
        /\ inflight[k] > 0
        /\ outcome' = [outcome EXCEPT ![k] = result]
        /\ inflight' = [inflight EXCEPT ![k] = @ - 1]
        /\ ranging' = ranging + 1
        /\ UNCHANGED <<serviceVars, records, skippedRecords, mainPc, spawned, queued,
                       jobs, closed, wg, posted>>

\* The range over the closed and drained jobs ends: defer wg.Done()
WorkerDone ==
    /\ ranging > 0
    /\ closed
    /\ jobs = <<>>
    /\ ranging' = ranging - 1
    /\ wg' = wg - 1
    /\ UNCHANGED <<serviceVars, records, skippedRecords, mainPc, spawned, queued,
                   jobs, closed, inflight, posted, outcome>>

\* wg.Wait() returns.
WaitReturns ==
    /\ mainPc = "wait"
    /\ wg = 0
    /\ mainPc' = "done"
    /\ UNCHANGED <<serviceVars, records, skippedRecords, spawned, queued, jobs,
                   closed, wg, ranging, inflight, posted, outcome>>

\* The state after main has started the dispatcher and the HTTP server,
\* under one of the loads L.
Start(L) ==
    /\ load \in L
    /\ now = 0
    /\ tickC = 0
    /\ recordChannel = <<>>
    /\ batch = <<>>
    /\ disp = "select"
    /\ recordsToSend = <<>>
    /\ lastStart = -1
    /\ dispatched = <<>>
    /\ handlers = [h \in Handlers |-> Idle]
    /\ nextSub = 1
    /\ responses = [s \in 1..load.subs |-> 0]
    /\ accepted = <<>>
    /\ enrichedOk = {}
    /\ faults = 0
    /\ calls = [s \in 1..load.subs |-> [made |-> 0, failed |-> 0]]
    /\ lost = {}

Init == Start(Loads) /\ ClientOff

Next ==
    \/ \E h \in Handlers : Begin(h)
    \/ \E h \in Handlers : BadBody(h)
    \/ \E h \in Handlers : EnrichSucceed(h)
    \/ \E h \in Handlers : EnrichRetry(h)
    \/ \E h \in Handlers : Wake(h)
    \/ \E h \in Handlers : EnrichGiveUp(h)
    \/ \E h \in Handlers : Handoff(h)
    \/ Receive
    \/ HandleTick
    \/ SendOk
    \/ SendFail
    \/ Advance

Spec == Init /\ [][Next]_vars

\* The dispatcher goroutine keeps running and every sink call returns.
FairSpec ==
    /\ Spec
    /\ WF_vars(Receive)
    /\ WF_vars(HandleTick)
    /\ WF_vars(SendOk \/ SendFail)

\* The clock of a run stops at load.time; the ticker does not.  Past that
\* time a tick still arrives whenever the select is not ready, and is dropped
\* when ticker.C still holds the previous one.
TickPastHorizon ==
    /\ now = load.time
    /\ ~SelectReady
    /\ tickC' = Min(tickC + 1, 1)
    /\ UNCHANGED <<clientVars, load, now, recordChannel, batch, disp, recordsToSend,
                   lastStart, dispatched, handlers, nextSub, responses,
                   accepted, enrichedOk, faults, calls, lost>>

\* The burst and the flaky load with a clock that stops after LiveTime
\* seconds: from then on ticks carry no time.
LiveLoads == {[Burst EXCEPT !.time = LiveTime], [Flaky EXCEPT !.time = LiveTime]}

LiveInit == Start(LiveLoads) /\ ClientOff

LiveNext ==
    \/ Next
    \/ TickPastHorizon

\* Time passes and the ticker keeps ticking, sleeping handlers wake up, every
\* sink call returns, and the select of the dispatcher is fair to both of its
\* cases.
LiveSpec ==
    /\ LiveInit /\ [][LiveNext]_vars
    /\ WF_vars(Advance)
    /\ WF_vars(TickPastHorizon)
    /\ WF_vars(\E h \in Handlers : Wake(h))
    /\ SF_vars(Receive)
    /\ SF_vars(HandleTick)
    /\ WF_vars(SendOk \/ SendFail)

\* The client runs against a service that is left out: what sendRecord
\* returns is free.
ClientInit == Start({Steady}) /\ ClientStart

ClientNext ==
    \/ StartWorker
    \/ QueueJob
    \/ CloseJobs
    \/ TakeJob
    \/ SendRecordReturns
    \/ WorkerDone
    \/ WaitReturns

ClientSpec == ClientInit /\ [][ClientNext]_vars

\* ---- properties ---------------------------------------------------------
Range(seq) == {seq[i] : i \in DOMAIN seq}
SubsOf(seq) == {seq[i].sub : i \in DOMAIN seq}
Count(seq, s) == Cardinality({i \in DOMAIN seq : seq[i].sub = s})
AllSubs == 1..load.subs

\* The records the service holds between hand-off and dispatch.
Buffered == recordChannel \o batch

\* A step in which the dispatcher takes a tick from ticker.C.
TickHandled == tickC' < tickC

\* C1: two consecutive calls of sendToAnalytics never start less than
\* TickPeriod = 10 seconds apart, whatever the duration of the calls.
C1_SendsSpaced ==
    [][(lastStart' # lastStart /\ lastStart >= 0)
         => lastStart' - lastStart >= TickPeriod]_vars

\* C2: every record in the channel, in the dispatcher's pending list or in a
\* batch passed to the sink carries the enrichment fields and comes from a
\* submission whose enrichRecord call succeeded; a submission that was
\* answered 500 has no record in any of these places.
C2_OnlyEnrichedBuffered ==
    /\ \A r \in Range(Buffered) \cup Range(dispatched) \cup Range(recordsToSend) :
          IsEnriched(r) /\ r.sub \in enrichedOk
    /\ \A s \in AllSubs : responses[s] = 500 =>
          s \notin SubsOf(Buffered) \cup SubsOf(dispatched) \cup SubsOf(recordsToSend)

\* C2 witness: one submission was rejected after a failed enrichment while
\* another one's record has been passed to the sink.
C2_Witness ==
    /\ \E s \in AllSubs : responses[s] = 500
    /\ dispatched # <<>>

\* C3: a batch passed to sendToAnalytics holds at most maxBatchSize = 20
\* records.
C3_BatchAtMostMax == Len(recordsToSend) <= maxBatchSize

\* C3 witness: a full batch is being sent and more records were pending.
C3_Witness ==
    /\ disp = "sending"
    /\ Len(recordsToSend) = maxBatchSize
    /\ Len(batch) > 0

\* Position of submission s in the order of completed hand-offs.
Pos(s) == CHOOSE i \in DOMAIN accepted : accepted[i] = s

\* C4: the records of a batch passed to the sink are in the order in which
\* their hand-offs into the channel completed.
C4_BatchFifo ==
    /\ SubsOf(recordsToSend) \subseteq Range(accepted)
    /\ \A i, j \in DOMAIN recordsToSend :
          i < j => Pos(recordsToSend[i].sub) < Pos(recordsToSend[j].sub)

\* C4 witness: a batch in flight holds two records of concurrent handlers
\* whose hand-offs completed in the reverse of their arrival order.
C4_Witness ==
    /\ disp = "sending"
    /\ \E i, j \in DOMAIN recordsToSend :
          i < j /\ recordsToSend[i].sub > recordsToSend[j].sub

\* C5 as claimed: at most C = 20 records are handed off and not yet removed
\* into a dispatched batch.
C5_BufferBounded == Len(recordChannel) + Len(batch) <= ChanCap

\* C5 as amended: at most C = 20 records are handed off and not yet received
\* by the dispatcher (the channel never holds more than its capacity).
C5_ChannelBounded == Len(recordChannel) <= ChanCap

\* C5 witness: the channel is full and a handler is blocked on its send.
C5_Witness ==
    /\ Len(recordChannel) = ChanCap
    /\ \E h \in Handlers : handlers[h].pc = "handoff"

\* C6 as claimed: a handled tick with n > 0 records handed off and not yet
\* dispatched forwards the min(n, 20) earliest of them and keeps the rest.
C6_TickTakesEarliestAccepted ==
    [][(TickHandled /\ Len(Buffered) > 0) =>
          /\ recordsToSend' = SubSeq(Buffered, 1, Min(Len(Buffered), 20))
          /\ recordChannel' = recordChannel
          /\ batch' \o recordChannel' =
                SubSeq(Buffered, Min(Len(Buffered), 20) + 1, Len(Buffered))]_vars

\* C6 as amended: a handled tick with n > 0 records in the dispatcher's
\* pending list forwards the min(n, 20) earliest of them and keeps the other
\* n - min(n, 20) at the head of the pending list, where every other step
\* leaves them.
C6_TickTakesEarliestPending ==
    [][/\ (TickHandled /\ Len(batch) > 0) =>
             /\ recordsToSend' = SubSeq(batch, 1, Min(Len(batch), 20))
             /\ batch' = SubSeq(batch, Min(Len(batch), 20) + 1, Len(batch))
       /\ ~TickHandled =>
             /\ Len(batch') >= Len(batch)
             /\ SubSeq(batch', 1, Len(batch)) = batch]_vars

\* C6 witness: 25 records were pending, the first dispatch took 20 of them
\* and the dispatch in flight carries exactly the remaining 5.
C6_Witness ==
    /\ disp = "sending"
    /\ Len(dispatched) = 25
    /\ Len(recordsToSend) = 5
    /\ batch = <<>>

\* C7: a submission answered 200 has its record in the channel, in the
\* pending list or in a dispatched batch, and a handler that is still
\* enriching or waiting on the channel send has written no response.
C7_AckAfterHandoff ==
    /\ \A s \in AllSubs : responses[s] = 200 =>
          s \in SubsOf(Buffered) \cup SubsOf(dispatched)
    /\ \A h \in Handlers : InFlight(h) => responses[handlers[h].sub] = 0

\* C7 witness: a handler is blocked on the full channel, unanswered, while
\* earlier submissions have been answered 200.
C7_Witness ==
    /\ \E h \in Handlers : handlers[h].pc = "handoff" /\ ~CanSend(recordChannel)
    /\ \E s \in AllSubs : responses[s] = 200

\* Number of places that hold the record of submission s.
Places(s) ==
    Cardinality({h \in Handlers : handlers[h].pc = "handoff" /\ handlers[h].sub = s})
    + Count(recordChannel, s) + Count(batch, s) + Count(dispatched, s)

\* C8: the record of every successfully enriched submission is in exactly
\* one place: with its handler waiting to hand it off, in the channel, in the
\* pending list, or in a batch passed to the sender.
C8_NoOverflowDrop == \A s \in enrichedOk : Places(s) = 1

\* C8 witness: records are in all of these places at once, the channel being
\* full.
C8_Witness ==
    /\ \E h \in Handlers : handlers[h].pc = "handoff"
    /\ Len(recordChannel) = ChanCap
    /\ dispatched # <<>>

\* C9: enrichRecord makes at most 3 attempts; attempt 2 starts at least 1
\* second after attempt 1 failed and attempt 3 at least 2 seconds after
\* attempt 2 failed.
C9_RetrySchedule ==
    /\ [](\A h \in Handlers : handlers[h].attempt <= 3)
    /\ [][\A h \in Handlers :
            (handlers[h].pc = "sleep" /\ handlers'[h].pc = "call") =>
               now - handlers[h].failedAt >=
                  (IF handlers'[h].attempt = 2 THEN 1 ELSE 2)]_vars

\* C9 witness: a third attempt is in flight.
C9_Witness ==
    \E h \in Handlers : handlers[h].pc = "call" /\ handlers[h].attempt = 3

\* A step in which handler h answers 500.
GivesUp(h) ==
    /\ handlers[h].pc = "call"
    /\ responses[handlers[h].sub] = 0
    /\ responses'[handlers[h].sub] = 500

\* C10 as claimed: enrichRecord has spent 1+2+4 = 7 seconds in backoff waits
\* when it returns the terminal failure.
C10_SevenBeforeGiveUp ==
    [][\A h \in Handlers : GivesUp(h) => handlers[h].waited >= 7]_vars

\* C10 as amended: enrichRecord has spent 1+2 = 3 seconds in backoff waits
\* when it returns the terminal failure (no wait follows the third attempt).
C10_ThreeBeforeGiveUp ==
    [][\A h \in Handlers : GivesUp(h) => handlers[h].waited >= 1 + 2]_vars

\* C10 witness: a submission was rejected after its third attempt failed.
C10_Witness == \E s \in AllSubs : responses[s] = 500

\* C11: a submission is answered 500 exactly when three enrichment attempts
\* were made for it and all three failed; a successful enrichment stops at
\* its first successful attempt; once enrichRecord has returned, with the
\* terminal failure or with success, no further attempt is made for that
\* submission.
C11_RejectedIffAllFailed ==
    /\ [](\A s \in AllSubs :
            /\ responses[s] = 500 <=> calls[s].failed = 3
            /\ responses[s] = 500 => calls[s].made = 3
            /\ s \in enrichedOk =>
                  calls[s].made <= 3 /\ calls[s].failed = calls[s].made - 1)
    /\ [][\A s \in AllSubs :
            (responses[s] = 500 \/ s \in enrichedOk) => calls'[s] = calls[s]]_vars

\* C11 witness: one submission was rejected after three failed attempts and
\* another was enriched at its first attempt.
C11_Witness ==
    /\ \E s \in AllSubs : responses[s] = 500 /\ calls[s].made = 3
    /\ \E s \in enrichedOk : calls[s].made = 1

\* A step in which submission s is answered 400.
Rejects400(s) == responses[s] = 0 /\ responses'[s] = 400

\* C12: a submission whose body does not decode is answered 400 and has no
\* side effect: no enrichment attempt is ever made for it, it has no record
\* anywhere, and the step that rejects it leaves the channel, the dispatcher
\* and the other handlers as they were.
C12_DecodeErrorNoEffect ==
    /\ [](\A s \in AllSubs : responses[s] = 400 =>
            /\ calls[s] = [made |-> 0, failed |-> 0]
            /\ s \notin enrichedOk
            /\ s \notin SubsOf(Buffered) \cup SubsOf(dispatched)
            /\ \A h \in Handlers : handlers[h].sub # s)
    /\ [][\A s \in AllSubs : Rejects400(s) =>
            UNCHANGED <<recordChannel, batch, disp, recordsToSend, tickC,
                        dispatched, lastStart, handlers, calls, enrichedOk,
                        accepted>>]_vars

\* C12 witness: a submission was answered 400 while records were waiting in
\* the dispatcher's pending list.
C12_Witness ==
    /\ \E s \in AllSubs : responses[s] = 400
    /\ batch # <<>>

\* A step in which the sendToAnalytics call in flight returns an error.
SendFails == disp = "sending" /\ lost' # lost

\* C13: a failed sink call leaves the channel and the pending list exactly
\* as the drain left them and returns the dispatcher to its select; the
\* records of the failed batch are not in the buffer again and occur in no
\* later batch.
C13_FailedBatchLost ==
    /\ [][SendFails =>
            /\ batch' = batch
            /\ recordChannel' = recordChannel
            /\ dispatched' = dispatched
            /\ disp' = "select"
            /\ SubsOf(recordsToSend) \subseteq lost']_vars
    /\ [](\A s \in lost :
            /\ s \notin SubsOf(Buffered)
            /\ s \notin SubsOf(recordsToSend)
            /\ Count(dispatched, s) = 1)

\* C13 witness: after a failed sink call the next tick sends a batch of
\* other records.
C13_Witness ==
    /\ lost # {}
    /\ disp = "sending"
    /\ SubsOf(recordsToSend) \cap lost = {}

\* A step in which handler h answers 500.
Rejects500(h) == InFlight(h) /\ responses'[handlers[h].sub] = 500

\* C14: no failure halts the pipeline.  A failed sink call returns the
\* dispatcher to its select, a terminal enrichment failure frees its handler
\* and a decode error leaves every handler as it was; after any failure
\* every tick in ticker.C is still taken and every record in the channel is
\* still received.
C14_FailuresDoNotHalt ==
    /\ [][SendFails => disp' = "select"]_vars
    /\ [][\A h \in Handlers : Rejects500(h) => handlers'[h] = Idle]_vars
    /\ [][(\E s \in AllSubs : Rejects400(s)) => handlers' = handlers /\ disp' = disp]_vars
    /\ ((faults > 0 /\ tickC > 0) ~> (tickC = 0))
    /\ ((faults > 0 /\ recordChannel # <<>>) ~> (recordChannel = <<>>))

\* C14 witness: a sink call has failed, and a later submission whose
\* enrichment failed once was answered 200 and is in the batch now with the
\* sink.
C14_Witness ==
    /\ lost # {}
    /\ \E i \in DOMAIN recordsToSend :
          LET s == recordsToSend[i].sub
          IN  /\ \A l \in lost : l < s
              /\ calls[s].failed > 0
              /\ responses[s] = 200

\* C15: the channel send of a handler is blocked exactly in the states where
\* the channel holds ChanCap = 20 records; with fewer records it can complete
\* in the state as it is, whether or not a tick is waiting.
C15_BlockedOnlyWhenFull ==
    \A h \in Handlers : handlers[h].pc = "handoff" =>
        (ENABLED Handoff(h) <=> Len(recordChannel) < ChanCap)

\* C15 witness: a handler is about to send into a channel that holds 19
\* records while the dispatcher is busy with a sink call and no tick waits.
C15_Witness ==
    /\ \E h \in Handlers : handlers[h].pc = "handoff"
    /\ Len(recordChannel) = ChanCap - 1
    /\ disp = "sending"
    /\ tickC = 0

\* The records enrichRecord has returned: held by a handler for the channel
\* send, buffered, or dispatched.
EnrichedRecords ==
    {handlers[h].record : h \in {g \in Handlers : handlers[g].pc = "handoff"}}
    \cup Range(Buffered) \cup Range(dispatched)

\* C16: a record returned by a successful enrichment has the id, assetName,
\* ip, createdUtc and source of the submitted record, and the asn, category
\* and correlationId of the enrichment response.
C16_EnrichedFields ==
    \A r \in EnrichedRecords :
        LET in == BodyOf(r.sub)
            resp == Lookup([id |-> in.id, asset |-> in.assetName, ip |-> in.ip,
                            category |-> in.category])
        IN  /\ r.id = in.id
            /\ r.assetName = in.assetName
            /\ r.ip = in.ip
            /\ r.createdUtc = in.createdUtc
            /\ r.source = in.source
            /\ r.asn = resp.asn
            /\ r.category = resp.category
            /\ r.correlationId = resp.correlationId

\* C16 witness: records of both bodies were enriched, one of them to a
\* category other than the submitted one.
C16_Witness ==
    /\ \E r \in EnrichedRecords : r.id = "a" /\ r.category # BodyOf(r.sub).category
    /\ \E r \in EnrichedRecords : r.id = "b"

\* Number of entries of seq whose id is i.
CountId(seq, i) == Cardinality({k \in DOMAIN seq : seq[k].id = i})

\* C17: there is no deduplication by id: the submissions with a given id
\* that were answered 200 each had their own enrichment attempts and each
\* have their own entry in the buffer or in the dispatched batches.
C17_NoDedup ==
    \A i \in {"a", "b"} :
        LET ok == {s \in AllSubs : responses[s] = 200 /\ BodyOf(s).id = i}
        IN  /\ CountId(Buffered, i) + CountId(dispatched, i) = Cardinality(ok)
            /\ \A s \in ok : calls[s].made >= 1

\* C17 witness: one dispatched batch holds two entries that agree in every
\* field of the program.
C17_Witness ==
    \E i, j \in DOMAIN recordsToSend :
        /\ i < j
        /\ [recordsToSend[i] EXCEPT !.sub = 0] = [recordsToSend[j] EXCEPT !.sub = 0]

\* A step in which sendToAnalytics is called.
Delivers == disp = "select" /\ disp' = "sending"

\* C18: sendToAnalytics is called only in the handling of a tick, once per
\* handled tick and with at most maxBatchSize records, the rest staying in
\* batch; a step that takes a record off the channel calls nothing, however
\* many records are pending.
C18_DeliveryOnlyOnTick ==
    /\ [][(Delivers \/ dispatched' # dispatched \/ lastStart' # lastStart) =>
            /\ Delivers
            /\ tickC = 1 /\ tickC' = 0
            /\ recordsToSend' = SubSeq(batch, 1, Min(Len(batch), maxBatchSize))
            /\ dispatched' = dispatched \o recordsToSend'
            /\ batch = recordsToSend' \o batch'
            /\ recordChannel' = recordChannel]_vars
    /\ [][recordChannel' # recordChannel =>
            /\ disp' = disp
            /\ dispatched' = dispatched
            /\ recordsToSend' = recordsToSend]_vars
    /\ [](tickC <= 1)

\* C18 witness: maxBatchSize or more records are pending and
\* sendToAnalytics has not been called.
C18_Witness ==
    /\ Len(batch) >= maxBatchSize
    /\ disp = "select"
    /\ dispatched = <<>>
    /\ lastStart = -1

\* C19: a tick handled with an empty batch changes nothing of the
\* dispatcher and calls nothing, and sendToAnalytics never gets an empty
\* batch.
C19_EmptyTickNoSend ==
    /\ [][(TickHandled /\ batch = <<>>) =>
            UNCHANGED <<batch, disp, recordsToSend, dispatched, lastStart,
                        recordChannel>>]_vars
    /\ [][Delivers => recordsToSend' # <<>>]_vars
    /\ [](disp = "sending" => recordsToSend # <<>>)

\* C19 witness: the tick of this second was handled with an empty batch and
\* no call was made.
C19_Witness ==
    /\ now > 0
    /\ now % TickPeriod = 0
    /\ tickC = 0
    /\ disp = "select"
    /\ batch = <<>>
    /\ lastStart # now
    /\ recordsToSend = <<>>

\* C20: the batches passed to sendToAnalytics, concatenated in the order of
\* the calls, are a prefix of the records in the order their channel sends
\* completed, and the rest of that order is what is in batch and in the
\* channel.
C20_DispatchedPrefix ==
    /\ Len(dispatched) <= Len(accepted)
    /\ \A i \in DOMAIN dispatched : dispatched[i].sub = accepted[i]
    /\ [i \in DOMAIN (dispatched \o batch \o recordChannel) |->
            (dispatched \o batch \o recordChannel)[i].sub] = accepted

\* C20 witness: a second batch is with sendToAnalytics while later
\* hand-offs are still undispatched.
C20_Witness ==
    /\ disp = "sending"
    /\ Len(dispatched) > Len(recordsToSend)
    /\ Len(accepted) > Len(dispatched)

\* C21: a record whose channel send completed is eventually part of a batch
\* passed to sendToAnalytics, while other submissions keep arriving, given
\* that ticks keep coming, sink calls return and the select is fair.
C21_AcceptedEventuallyDispatched ==
    (Range(accepted) # SubsOf(dispatched)) ~> (Range(accepted) = SubsOf(dispatched))

\* C21 witness: every submission of the burst load was handed off and all of
\* them, more than one batch, have been passed to sendToAnalytics.
C21_Witness ==
    /\ load.subs = BurstSubs
    /\ Len(accepted) = load.subs
    /\ SubsOf(dispatched) = Range(accepted)
    /\ disp = "select"

\* Number of sendRecord calls made for the record of index k.
SendCalls(k) == Cardinality({i \in DOMAIN posted : posted[i].k = k})

\* Number of sendRecord calls that have not returned.
RECURSIVE InFlightUpTo(_)
InFlightUpTo(k) == IF k = 0 THEN 0 ELSE inflight[k] + InFlightUpTo(k - 1)

\* A step in which a sendRecord call returns an error.
SendErrors == \E k \in Indexes : inflight'[k] < inflight[k] /\ outcome'[k] = "error"

\* C22: the client calls sendRecord at most once for each record left after
\* reading and filtering, with that record's fields, and exactly once by the
\* time main gets past wg.Wait(), when every call has returned; main can
\* always send on jobs; the workers are the numWorkers goroutines main
\* started, and one that got an error goes back to the range without a
\* second call.
C22_ClientSubmitsEachOnce ==
    /\ [](\A k \in Indexes : SendCalls(k) <= 1)
    /\ [](\A i \in DOMAIN posted :
            posted[i].k \in Indexes /\ posted[i].body = Payload(records[posted[i].k].record))
    /\ [](mainPc = "done" =>
            \A k \in Indexes :
                SendCalls(k) = 1 /\ outcome[k] # "none" /\ inflight[k] = 0)
    /\ [](mainPc = "queue" /\ queued < Len(records) => ENABLED QueueJob)
    /\ [](mainPc \in {"queue", "wait", "done"} => spawned = numWorkers)
    /\ [](wg = ranging + InFlightUpTo(Len(records)) /\ wg <= numWorkers)
    /\ [][SendErrors =>
            /\ ranging' = ranging + 1
            /\ wg' = wg
            /\ posted' = posted
            /\ jobs' = jobs
            /\ mainPc' = mainPc]_vars

\* C22 witness: main is past wg.Wait() after a run in which readCSV skipped
\* lines, one sendRecord call returned an error and a later one returned nil.
C22_Witness ==
    /\ mainPc = "done"
    /\ skippedRecords # <<>>
    /\ \E j, k \in Indexes : j < k /\ outcome[j] = "error" /\ outcome[k] = "ok"
====
